---------------------------- MODULE Spec2Model ----------------------------
(***************************************************************************)
(* The Remote Agent Invocation Gateway of the orchestrator process         *)
(* (05-hosting-a2a/agents/orchestrator.py, and its copy under              *)
(* hackathon_ClaimsAdjudication).                                          *)
(*                                                                         *)
(* One asyncio event loop runs one request handler (invoke_agent) and the  *)
(* tool coroutines (send_agent_message) the reasoning layer starts.        *)
(* Coroutines interleave only at their await points, so every action below *)
(* is one run of code between two awaits.  Time is counted in seconds; a   *)
(* Tick is refused while a timer of the loop is due.                       *)
(***************************************************************************)
EXTENDS Integers, Sequences, FiniteSets, TLC

(* ------------------------------ bounds --------------------------------- *)
\* send_agent_message calls made over the life of the process
MaxCalls == 2
\* events of other shapes a response stream delivers before one call gives up
MaxSkipped == 1
\* intermediate events the reasoning layer streams in one request
MaxEvents == 1
\* parts a response message carries at most
MaxParts == 2
\* characters the message of an exception has at most
MaxMessageLen == 102
\* the small amounts of money tried, besides those around the thresholds
MaxAmount == 2
\* damaged components one claim lists at most
MaxComponents == 1
\* tool calls the reasoning layer of the settlement agent makes at most
MaxToolCalls == 2
\* coroutines that call get_mcp_client over the life of the process
MaxGetters == 3

(* ------------------------- program constants --------------------------- *)
DEFAULT_TIMEOUT == 15
AGENT_TIMEOUT == 10
CARD_TIMEOUT == 5
OUTER_TIMEOUT == 25
STATUS_BAD_REQUEST == 400
DIAGNOSTIC_LIMIT == 100
\* settlement-agent.py
COLLISION_COVERAGE == 50000
DEDUCTIBLE == 500
AUTO_APPROVAL_THRESHOLD == 5000

Calls == 1..MaxCalls
\* the agent types the two tools pass to send_agent_message
AgentTypes == {"docs", "blogs"}
\* the names send_agent_message can be called with: the configured ones and
\* one that get_cached_config has no key for
AgentNames == AgentTypes \cup {"appraisal"}
\* texts a remote agent answers with
Texts == {"A", "B"}
None == "None"

VARIABLES
    agent_arns,      \* _cache['agent_arns']: <<>> when empty, else name -> ARN
    cognito_config,  \* _cache['cognito_config']: {} for None, or {credential}
    agent_cards,     \* _cache['agent_cards']: ARN -> card
    http_client,     \* _cache['http_client']: None, "open" or "closed"
    headers,         \* the default headers of the shared httpx client
    net,             \* requests issued to each collaborator, counted
    calls,           \* the send_agent_message coroutines
    req,             \* the invoke_agent generator of the request
    diag,            \* an exception message and the text an except clause makes of it
    settlement,      \* the tool calls of the settlement agent and their results
    mcp_client,      \* _mcp_client of the docs agent: None, or a client
    getters          \* the get_mcp_client coroutines

orchestratorVars == <<agent_arns, cognito_config, agent_cards, http_client, headers,
          net, calls, req>>
\* the variables of the other programs of the repository, which no step of
\* the orchestrator touches
outsideOrchestrator == <<diag, settlement, mcp_client, getters>>
vars == <<orchestratorVars, outsideOrchestrator>>

(* ------------------------------ helpers -------------------------------- *)
\* quote(agent_arn) inside the runtime URL: one endpoint per ARN
ArnOf(name) == <<"arn", name>>

NoHeaders == [auth |-> 0, session |-> 0]

\* a coroutine that has returned nothing (yet)
NoValue == [tag |-> None, arg |-> None]

IdleCall == [pc |-> "idle", agent |-> None, clk |-> 0, cardTime |-> 0,
             cardHdr |-> NoHeaders, msgHdr |-> NoHeaders, skipped |-> 0,
             reply |-> None, how |-> None, ret |-> NoValue, peers |-> {}]

InFlight(i) == calls[i].pc \in {"card", "send"}


(* ------------------------- the collaborators --------------------------- *)
\* get_ssm_parameter: both succeed, or the first or the second call raises
SsmOutcomes == {"ok", "fail_docs", "fail_blogs"}
\* get_cognito_secret + json.loads: a good secret, an unreachable store, text
\* that is no JSON, or a JSON object without the two keys
SecretOutcomes == {"ok", "unreachable", "badjson", "nokeys"}
\* reauthenticate_user
IdpOutcomes == {"ok", "fail"}

GoodCredential == [client_id |-> "id", client_secret |-> "secret"]
NullCredential == [client_id |-> None, client_secret |-> None]

NoNet == [ssm |-> 0, secret |-> 0, idp |-> 0,
          card |-> [a \in {ArnOf(t) : t \in AgentTypes} |-> 0], msg |-> 0]

(* --------------------------- get_cached_config ------------------------- *)
\* The result of one run: the two cache slots after it, the exception it
\* raised (None: it returned) and the store calls it made.
\* as if the secret were fetched before the two parameters
get_cached_config_CredentialFirst(arns, cog, ssm, sec) ==
    LET needCog  == (cog = {})
        cogExc   == needCog /\ sec \in {"unreachable", "badjson"}
        cog1     == IF needCog /\ sec = "ok" THEN {GoodCredential}
                    ELSE IF needCog /\ sec = "nokeys" THEN {NullCredential}
                    ELSE cog
        needArns == ~cogExc /\ arns = <<>>
        arnsExc  == needArns /\ ssm # "ok"
        arns1    == IF needArns /\ ssm = "ok"
                    THEN [a \in AgentTypes |-> ArnOf(a)] ELSE arns
        ssmCalls == IF ~needArns THEN 0
                    ELSE IF ssm = "fail_docs" THEN 1 ELSE 2
    IN  [arns |-> arns1, cog |-> cog1,
         exc |-> IF arnsExc \/ cogExc THEN "Exception" ELSE None,
         ssmCalls |-> ssmCalls, secCalls |-> IF needCog THEN 1 ELSE 0]

\* as if the secret were fetched without looking at the cache slot
get_cached_config_NoCredentialCheck(arns, cog, ssm, sec) ==
    LET needArns == (arns = <<>>)
        arnsExc  == needArns /\ ssm # "ok"
        arns1    == IF needArns /\ ssm = "ok"
                    THEN [a \in AgentTypes |-> ArnOf(a)] ELSE arns
        ssmCalls == IF ~needArns THEN 0
                    ELSE IF ssm = "fail_docs" THEN 1 ELSE 2
        needCog  == ~arnsExc
        cogExc   == needCog /\ sec \in {"unreachable", "badjson"}
        cog1     == IF needCog /\ sec = "ok" THEN {GoodCredential}
                    ELSE IF needCog /\ sec = "nokeys" THEN {NullCredential}
                    ELSE cog
    IN  [arns |-> arns1, cog |-> cog1,
         exc |-> IF arnsExc \/ cogExc THEN "Exception" ELSE None,
         ssmCalls |-> ssmCalls, secCalls |-> IF needCog THEN 1 ELSE 0]

\* as if the entries were stored one by one, each as soon as it is read
get_cached_config_StoresEachEntry(arns, cog, ssm, sec) ==
    LET needArns == (arns = <<>>)
        arnsExc  == needArns /\ ssm # "ok"
        arns1    == IF needArns /\ ssm = "ok"
                    THEN [a \in AgentTypes |-> ArnOf(a)]
                    ELSE IF needArns /\ ssm = "fail_blogs"
                    THEN [a \in {"docs"} |-> ArnOf(a)]
                    ELSE arns
        ssmCalls == IF ~needArns THEN 0
                    ELSE IF ssm = "fail_docs" THEN 1 ELSE 2
        needCog  == ~arnsExc /\ cog = {}
        cogExc   == needCog /\ sec \in {"unreachable", "badjson"}
        cog1     == IF needCog /\ sec = "ok" THEN {GoodCredential}
                    ELSE IF needCog /\ sec = "nokeys" THEN {NullCredential}
                    ELSE cog
    IN  [arns |-> arns1, cog |-> cog1,
         exc |-> IF arnsExc \/ cogExc THEN "Exception" ELSE None,
         ssmCalls |-> ssmCalls, secCalls |-> IF needCog THEN 1 ELSE 0]

get_cached_config(arns, cog, ssm, sec) ==
    LET needArns == (arns = <<>>)
        arnsExc  == needArns /\ ssm # "ok"
        arns1    == IF needArns /\ ssm = "ok"
                    THEN [a \in AgentTypes |-> ArnOf(a)] ELSE arns
        ssmCalls == IF ~needArns THEN 0
                    ELSE IF ssm = "fail_docs" THEN 1 ELSE 2
        needCog  == ~arnsExc /\ cog = {}
        cogExc   == needCog /\ sec \in {"unreachable", "badjson"}
        cog1     == IF needCog /\ sec = "ok" THEN {GoodCredential}
                    ELSE IF needCog /\ sec = "nokeys" THEN {NullCredential}
                    ELSE cog
    IN  [arns |-> arns1, cog |-> cog1,
         exc |-> IF arnsExc \/ cogExc THEN "Exception" ELSE None,
         ssmCalls |-> ssmCalls, secCalls |-> IF needCog THEN 1 ELSE 0]

(* ---------------------------- get_bearer_token ------------------------- *)
\* fresh: the value the identity provider mints in this call
\* as if a failure of the identity provider were swallowed and no token
\* (0) returned
get_bearer_token_SwallowsFailure(arns, cog, ssm, sec, idp, fresh) ==
    LET cfg == get_cached_config(arns, cog, ssm, sec)
    IN  [arns |-> cfg.arns, cog |-> cfg.cog, exc |-> cfg.exc,
         token |-> IF cfg.exc = None /\ idp = "ok" THEN fresh ELSE 0,
         ssmCalls |-> cfg.ssmCalls, secCalls |-> cfg.secCalls,
         idpCalls |-> IF cfg.exc = None THEN 1 ELSE 0]

get_bearer_token(arns, cog, ssm, sec, idp, fresh) ==
    LET cfg == get_cached_config(arns, cog, ssm, sec)
        exc == IF cfg.exc # None THEN cfg.exc
               ELSE IF idp # "ok" THEN "Exception" ELSE None
    IN  [arns |-> cfg.arns, cog |-> cfg.cog, exc |-> exc,
         token |-> IF exc = None THEN fresh ELSE 0,
         ssmCalls |-> cfg.ssmCalls, secCalls |-> cfg.secCalls,
         idpCalls |-> IF cfg.exc = None THEN 1 ELSE 0]

(* ----------------------------- get_http_client ------------------------- *)
get_http_client(client) == IF client = None THEN "open" ELSE client

(* ------------------- the except clauses of send_agent_message ---------- *)
\* What the try statement makes of an exception raised in its body: the
\* value returned, or tag "Raise" when no clause matches and the exception
\* leaves the coroutine.  CancelledError is a BaseException, not an Exception.
Exceptions == {"TimeoutError", "Exception", "CancelledError"}

\* as if the catch-all clause "except Exception" were missing
ExceptClauses_OnlyTimeout(exc, agent_type) ==
    IF exc = "TimeoutError"
    THEN [tag |-> "AgentTimedOut", arg |-> agent_type]
    ELSE [tag |-> "Raise", arg |-> exc]

\* as if both clauses logged the failure and raised it again
ExceptClauses_Reraise(exc, agent_type) ==
    [tag |-> "Raise", arg |-> exc]

ExceptClauses(exc, agent_type) ==
    IF exc = "TimeoutError"
    THEN [tag |-> "AgentTimedOut", arg |-> agent_type]
    ELSE IF exc = "Exception"
    THEN [tag |-> "Error", arg |-> exc]
    ELSE [tag |-> "Raise", arg |-> exc]

(* --------------------------- send_agent_message ------------------------ *)
\* as if the card fetch were bounded by the deadline of the call
CardDeadline_AgentTimeout == AGENT_TIMEOUT

\* the timer of asyncio.wait_for(resolver.get_agent_card(), timeout=5.0)
CardDeadline == CARD_TIMEOUT
\* as if the scope were entered with the client's timeout
MessageDeadline_Default == DEFAULT_TIMEOUT

\* the timer of asyncio.timeout(AGENT_TIMEOUT)
MessageDeadline == AGENT_TIMEOUT
\* as if the request were bounded by the client's timeout
OuterDeadline_Default == DEFAULT_TIMEOUT

\* the timer of asyncio.timeout(25.0) in invoke_agent
OuterDeadline == OUTER_TIMEOUT

Arns == {ArnOf(a) : a \in AgentTypes}

\* The try body raised exc: the coroutine returns what a clause makes of it,
\* or ends with the exception.  The locals of a coroutine that is over (its
\* clocks, the requests it had under way) are gone.
Raise(c, exc, how) ==
    LET r == ExceptClauses(exc, c.agent)
    IN  [c EXCEPT !.pc = IF r.tag = "Raise" THEN "raised" ELSE "returned",
                  !.ret = r, !.how = how, !.clk = 0, !.cardTime = 0,
                  !.skipped = 0, !.cardHdr = NoHeaders, !.msgHdr = NoHeaders]

Return(c, value, how) ==
    [c EXCEPT !.pc = "returned", !.ret = value, !.how = how,
              !.clk = 0, !.cardTime = 0,
              !.skipped = 0, !.cardHdr = NoHeaders, !.msgHdr = NoHeaders]

\* Lines 106-117: the client and the message are built, the timeout scope is
\* entered and send_message issues the request with the default headers the
\* shared client holds at this moment.
StartExchange(c, clientHeaders) ==
    [c EXCEPT !.pc = "send", !.cardTime = c.clk, !.clk = 0,
              !.msgHdr = clientHeaders]

\* as if the token were minted before the ARN is looked up
send_agent_message_begin_TokenFirst(i) ==
    /\ req.pc = "streaming"
    /\ calls[i].pc = "idle"
    /\ \A j \in 1..(i - 1) : calls[j].pc # "idle"
    /\ \E a \in AgentNames,
          ssm \in (IF agent_arns = <<>> THEN SsmOutcomes ELSE {"ok"}),
          sec \in (IF cognito_config = {} THEN SecretOutcomes ELSE {"ok"}),
          idp \in IdpOutcomes :
         LET cfg == get_cached_config(agent_arns, cognito_config, ssm, sec)
             tok == get_bearer_token(cfg.arns, cfg.cog, ssm, sec, idp, i)
             c0  == [calls[i] EXCEPT !.agent = a,
                                     !.peers = {j \in Calls : InFlight(j)}]
             hdr == [auth |-> tok.token, session |-> i]
             net1 == [net EXCEPT !.ssm = @ + cfg.ssmCalls,
                                 !.secret = @ + cfg.secCalls]
         IN  IF cfg.exc # None
             THEN /\ agent_arns' = cfg.arns
                  /\ cognito_config' = cfg.cog
                  /\ net' = net1
                  /\ calls' = [calls EXCEPT ![i] = Raise(c0, cfg.exc, "config")]
                  /\ UNCHANGED <<agent_cards, http_client, headers>>
             ELSE IF tok.exc # None
             THEN /\ agent_arns' = tok.arns
                  /\ cognito_config' = tok.cog
                  /\ net' = [net1 EXCEPT !.idp = @ + tok.idpCalls]
                  /\ calls' = [calls EXCEPT ![i] = Raise(c0, tok.exc, "token")]
                  /\ UNCHANGED <<agent_cards, http_client, headers>>
             ELSE IF a \notin DOMAIN cfg.arns
             THEN /\ agent_arns' = cfg.arns
                  /\ cognito_config' = cfg.cog
                  /\ net' = [net1 EXCEPT !.idp = @ + tok.idpCalls]
                  /\ calls' = [calls EXCEPT ![i] = Raise(c0, "Exception", "lookup")]
                  /\ UNCHANGED <<agent_cards, http_client, headers>>
             ELSE /\ agent_arns' = tok.arns
                  /\ cognito_config' = tok.cog
                  /\ http_client' = get_http_client(http_client)
                  /\ headers' = hdr
                  /\ UNCHANGED agent_cards
                  /\ IF get_http_client(http_client) = "closed"
                     THEN /\ calls' = [calls EXCEPT ![i] =
                                 Raise(c0, "Exception", "closed")]
                          /\ net' = [net1 EXCEPT !.idp = @ + tok.idpCalls]
                     ELSE IF tok.arns[a] \notin DOMAIN agent_cards
                     THEN /\ calls' = [calls EXCEPT ![i] =
                                 [c0 EXCEPT !.pc = "card", !.clk = 0,
                                            !.cardHdr = hdr]]
                          /\ net' = [net1 EXCEPT !.idp = @ + tok.idpCalls,
                                        !.card[tok.arns[a]] = @ + 1]
                     ELSE /\ calls' = [calls EXCEPT ![i] = StartExchange(c0, hdr)]
                          /\ net' = [net1 EXCEPT !.idp = @ + tok.idpCalls,
                                        !.msg = @ + 1]
    /\ UNCHANGED req
    /\ UNCHANGED outsideOrchestrator

\* Lines 80-104, up to the first await.  A client that has been closed is
\* handed out like an open one and takes the headers; the first request on
\* it is refused by httpx before anything is sent ("Cannot send a request,
\* as the client has been closed"), which ends the call with an Error text.  A store whose cache slot is filled
\* is not consulted, so its outcome is not drawn.
send_agent_message_begin(i) ==
    /\ req.pc = "streaming"
    /\ calls[i].pc = "idle"
    /\ \A j \in 1..(i - 1) : calls[j].pc # "idle"
    /\ \E a \in AgentNames,
          ssm \in (IF agent_arns = <<>> THEN SsmOutcomes ELSE {"ok"}),
          sec \in (IF cognito_config = {} THEN SecretOutcomes ELSE {"ok"}),
          idp \in IdpOutcomes :
         LET cfg == get_cached_config(agent_arns, cognito_config, ssm, sec)
             tok == get_bearer_token(cfg.arns, cfg.cog, ssm, sec, idp, i)
             c0  == [calls[i] EXCEPT !.agent = a,
                                     !.peers = {j \in Calls : InFlight(j)}]
             hdr == [auth |-> tok.token, session |-> i]
             net1 == [net EXCEPT !.ssm = @ + cfg.ssmCalls,
                                 !.secret = @ + cfg.secCalls]
         IN  IF cfg.exc # None
             THEN /\ agent_arns' = cfg.arns
                  /\ cognito_config' = cfg.cog
                  /\ net' = net1
                  /\ calls' = [calls EXCEPT ![i] = Raise(c0, cfg.exc, "config")]
                  /\ UNCHANGED <<agent_cards, http_client, headers>>
             ELSE IF a \notin DOMAIN cfg.arns
             THEN /\ agent_arns' = cfg.arns
                  /\ cognito_config' = cfg.cog
                  /\ net' = net1
                  /\ calls' = [calls EXCEPT ![i] = Raise(c0, "Exception", "lookup")]
                  /\ UNCHANGED <<agent_cards, http_client, headers>>
             ELSE IF tok.exc # None
             THEN /\ agent_arns' = tok.arns
                  /\ cognito_config' = tok.cog
                  /\ net' = [net1 EXCEPT !.idp = @ + tok.idpCalls]
                  /\ calls' = [calls EXCEPT ![i] = Raise(c0, tok.exc, "token")]
                  /\ UNCHANGED <<agent_cards, http_client, headers>>
             ELSE /\ agent_arns' = tok.arns
                  /\ cognito_config' = tok.cog
                  /\ http_client' = get_http_client(http_client)
                  /\ headers' = hdr
                  /\ UNCHANGED agent_cards
                  /\ IF get_http_client(http_client) = "closed"
                     THEN /\ calls' = [calls EXCEPT ![i] =
                                 Raise(c0, "Exception", "closed")]
                          /\ net' = [net1 EXCEPT !.idp = @ + tok.idpCalls]
                     ELSE IF tok.arns[a] \notin DOMAIN agent_cards
                     THEN /\ calls' = [calls EXCEPT ![i] =
                                 [c0 EXCEPT !.pc = "card", !.clk = 0,
                                            !.cardHdr = hdr]]
                          /\ net' = [net1 EXCEPT !.idp = @ + tok.idpCalls,
                                        !.card[tok.arns[a]] = @ + 1]
                     ELSE /\ calls' = [calls EXCEPT ![i] = StartExchange(c0, hdr)]
                          /\ net' = [net1 EXCEPT !.idp = @ + tok.idpCalls,
                                        !.msg = @ + 1]
    /\ UNCHANGED req
    /\ UNCHANGED outsideOrchestrator

\* Lines 102-117: resolver.get_agent_card() returned; the card is stored and
\* the exchange starts in the same run.
card_response(i) ==
    /\ calls[i].pc = "card"
    /\ agent_cards' = (agent_arns[calls[i].agent] :> i) @@ agent_cards
    /\ calls' = [calls EXCEPT ![i] = StartExchange(calls[i], headers)]
    /\ net' = [net EXCEPT !.msg = @ + 1]
    /\ UNCHANGED <<agent_arns, cognito_config, http_client, headers, req>>
    /\ UNCHANGED outsideOrchestrator

\* resolver.get_agent_card() raised
card_failure(i) ==
    /\ calls[i].pc = "card"
    /\ calls' = [calls EXCEPT ![i] = Raise(calls[i], "Exception", "card_failure")]
    /\ UNCHANGED <<agent_arns, cognito_config, agent_cards, http_client,
                   headers, net, req>>
    /\ UNCHANGED outsideOrchestrator

\* asyncio.wait_for(..., timeout=5.0) expired
card_timeout(i) ==
    /\ calls[i].pc = "card"
    /\ calls[i].clk = CardDeadline
    /\ calls' = [calls EXCEPT ![i] = Raise(calls[i], "TimeoutError", "card_timeout")]
    /\ UNCHANGED <<agent_arns, cognito_config, agent_cards, http_client,
                   headers, net, req>>
    /\ UNCHANGED outsideOrchestrator

\* The events client.send_message yields: a Message, a 2-tuple whose first
\* element carries the parts, or anything else.
EventShapes == {"Message", "Tuple2", "Other"}
PartLists == UNION {[1..n -> Texts] : n \in 0..MaxParts}

\* as if the first part were read without looking whether there is one: the
\* index raises and the except clause returns an Error text
OnEvent_NoGuard(shape, parts) ==
    IF shape \in {"Message", "Tuple2"}
    THEN IF parts # <<>> THEN [tag |-> "Text", arg |-> parts[1]]
         ELSE [tag |-> "Error", arg |-> "Exception"]
    ELSE [tag |-> "Continue", arg |-> None]

\* Lines 118-121: the value the loop body returns for one event, tag
\* "Continue" when it returns nothing and the loop goes on.
OnEvent(shape, parts) ==
    IF shape \in {"Message", "Tuple2"}
    THEN IF parts # <<>> THEN [tag |-> "Text", arg |-> parts[1]]
         ELSE [tag |-> "NoResponse", arg |-> None]
    ELSE [tag |-> "Continue", arg |-> None]

message_event(i) ==
    /\ calls[i].pc = "send"
    /\ \E shape \in EventShapes, parts \in PartLists :
         LET v == OnEvent(shape, parts)
         IN  IF v.tag = "Continue"
             THEN /\ calls[i].skipped < MaxSkipped
                  /\ calls' = [calls EXCEPT ![i].skipped = @ + 1]
             ELSE calls' = [calls EXCEPT ![i] =
                     Return([calls[i] EXCEPT
                               !.reply = IF parts = <<>> THEN None ELSE parts[1]],
                            v, "message_event")]
    /\ UNCHANGED <<agent_arns, cognito_config, agent_cards, http_client,
                   headers, net, req>>
    /\ UNCHANGED outsideOrchestrator

\* as if the end of the stream were reported like an expired timer
message_stream_end_AsTimeout(i) ==
    /\ calls[i].pc = "send"
    /\ calls' = [calls EXCEPT ![i] =
            Raise(calls[i], "TimeoutError", "message_stream_end")]
    /\ UNCHANGED <<agent_arns, cognito_config, agent_cards, http_client,
                   headers, net, req>>
    /\ UNCHANGED outsideOrchestrator

\* Line 123: the stream ended without a Message or 2-tuple
message_stream_end(i) ==
    /\ calls[i].pc = "send"
    /\ calls' = [calls EXCEPT ![i] =
            Return(calls[i], [tag |-> "NoResponseReceived", arg |-> None],
                   "message_stream_end")]
    /\ UNCHANGED <<agent_arns, cognito_config, agent_cards, http_client,
                   headers, net, req>>
    /\ UNCHANGED outsideOrchestrator

\* send_message raised (transport error, error response, ...)
message_failure(i) ==
    /\ calls[i].pc = "send"
    /\ calls' = [calls EXCEPT ![i] = Raise(calls[i], "Exception", "message_failure")]
    /\ UNCHANGED <<agent_arns, cognito_config, agent_cards, http_client,
                   headers, net, req>>
    /\ UNCHANGED outsideOrchestrator

\* as if the calls shared one timeout scope: the timer of call i ends every
\* call in flight
message_timeout_Shared(i) ==
    /\ calls[i].pc = "send"
    /\ calls[i].clk = MessageDeadline
    /\ calls' = [j \in Calls |->
                   IF InFlight(j)
                   THEN Raise(calls[j], "TimeoutError", "message_timeout")
                   ELSE calls[j]]
    /\ UNCHANGED <<agent_arns, cognito_config, agent_cards, http_client,
                   headers, net, req>>
    /\ UNCHANGED outsideOrchestrator

\* asyncio.timeout(AGENT_TIMEOUT) expired
message_timeout(i) ==
    /\ calls[i].pc = "send"
    /\ calls[i].clk = MessageDeadline
    /\ calls' = [calls EXCEPT ![i] = Raise(calls[i], "TimeoutError", "message_timeout")]
    /\ UNCHANGED <<agent_arns, cognito_config, agent_cards, http_client,
                   headers, net, req>>
    /\ UNCHANGED outsideOrchestrator

(* ------------------------------ invoke_agent --------------------------- *)
\* payload: not a mapping, without "prompt", with an empty or a real prompt
Payloads == {"notdict", "missing", "empty", "prompt"}

NoException == [type |-> None, status |-> 0]

IdleRequest == [pc |-> "idle", payload |-> None, clk |-> 0, events |-> <<>>,
                exc |-> NoException, expired |-> FALSE]

ErrorEvent(text) == [kind |-> "error", text |-> text]
TIMED_OUT == "Request timed out after 25 seconds"
PROCESSING_FAILED == "Processing failed"

\* as if "except Exception" came before "except asyncio.TimeoutError"
InvokeAgentExcept_CatchAllFirst(exc) ==
    IF exc = "HTTPException" THEN [kind |-> "raise", text |-> exc]
    ELSE IF exc \in {"Exception", "TimeoutError"}
    THEN [kind |-> "error", text |-> "Processing failed"]
    ELSE [kind |-> "raise", text |-> exc]

\* as if the catch-all clause "except Exception" were missing
InvokeAgentExcept_NoCatchAll(exc) ==
    IF exc = "TimeoutError"
    THEN [kind |-> "error", text |-> "Request timed out after 25 seconds"]
    ELSE [kind |-> "raise", text |-> exc]

\* Lines 183-190: what the except clauses of invoke_agent make of an
\* exception: the event they yield, or kind "raise" when it leaves the
\* generator.
InvokeAgentExcept(exc) ==
    IF exc = "TimeoutError" THEN ErrorEvent(TIMED_OUT)
    ELSE IF exc = "HTTPException" THEN [kind |-> "raise", text |-> exc]
    ELSE IF exc = "Exception" THEN ErrorEvent(PROCESSING_FAILED)
    ELSE [kind |-> "raise", text |-> exc]

\* The generator ends on exc: with the event of the matching clause as its
\* last event, or with the exception itself.
EndOn(r, exc, status) ==
    LET e == InvokeAgentExcept(exc)
    IN  IF e.kind = "raise"
        THEN [r EXCEPT !.pc = "raised", !.clk = 0,
                       !.exc = [type |-> exc, status |-> status]]
        ELSE [r EXCEPT !.pc = "done", !.clk = 0, !.events = Append(@, e)]

\* as if the prompt were not checked: every mapping is handed to the agent
invoke_agent_begin_NoCheck ==
    /\ req.pc = "idle"
    /\ \E payload \in Payloads :
         LET r == [req EXCEPT !.payload = payload]
         IN  req' = IF payload = "notdict" THEN EndOn(r, "Exception", 0)
                    ELSE [r EXCEPT !.pc = "streaming", !.clk = 0]
    /\ UNCHANGED <<agent_arns, cognito_config, agent_cards, http_client,
                   headers, net, calls>>
    /\ UNCHANGED outsideOrchestrator

\* Lines 169-178
invoke_agent_begin ==
    /\ req.pc = "idle"
    /\ \E payload \in Payloads :
         LET r == [req EXCEPT !.payload = payload]
         IN  req' = IF payload = "notdict" THEN EndOn(r, "Exception", 0)
                    ELSE IF payload \in {"missing", "empty"}
                    THEN EndOn(r, "HTTPException", STATUS_BAD_REQUEST)
                    ELSE [r EXCEPT !.pc = "streaming", !.clk = 0]
    /\ UNCHANGED <<agent_arns, cognito_config, agent_cards, http_client,
                   headers, net, calls>>
    /\ UNCHANGED outsideOrchestrator

\* Lines 180-181: the reasoning layer streams an event, which is yielded
agent_event ==
    /\ req.pc = "streaming"
    /\ Len(req.events) < MaxEvents
    /\ req' = [req EXCEPT !.events = Append(@, [kind |-> "event", text |-> None])]
    /\ UNCHANGED <<agent_arns, cognito_config, agent_cards, http_client,
                   headers, net, calls>>
    /\ UNCHANGED outsideOrchestrator

\* The stream ends with the final answer; the reasoning layer has the result
\* of every tool call it made.
agent_final ==
    /\ req.pc = "streaming"
    /\ \A i \in Calls : ~InFlight(i)
    /\ req' = [req EXCEPT !.pc = "done", !.clk = 0,
                          !.events = Append(@, [kind |-> "final", text |-> None])]
    /\ UNCHANGED <<agent_arns, cognito_config, agent_cards, http_client,
                   headers, net, calls>>
    /\ UNCHANGED outsideOrchestrator

\* agent.stream_async raised (the model call failed or timed out)
agent_raises ==
    /\ req.pc = "streaming"
    /\ \A i \in Calls : ~InFlight(i)
    /\ \E exc \in {"Exception", "TimeoutError"} : req' = EndOn(req, exc, 0)
    /\ UNCHANGED <<agent_arns, cognito_config, agent_cards, http_client,
                   headers, net, calls>>
    /\ UNCHANGED outsideOrchestrator

\* asyncio.timeout(25.0) expired: the task of the request is cancelled at its
\* await and the scope turns the cancellation into TimeoutError.  A tool
\* coroutine the reasoning layer awaits in that task is cancelled with it;
\* one it runs as a task of its own is not (the set D).
outer_deadline ==
    /\ req.pc = "streaming"
    /\ req.clk = OuterDeadline
    /\ req' = [EndOn(req, "TimeoutError", 0) EXCEPT !.expired = TRUE]
    /\ \E D \in SUBSET {i \in Calls : InFlight(i)} :
         calls' = [i \in Calls |->
                     IF InFlight(i) /\ i \notin D
                     THEN Raise(calls[i], "CancelledError", "cancelled")
                     ELSE calls[i]]
    /\ UNCHANGED <<agent_arns, cognito_config, agent_cards, http_client,
                   headers, net>>
    /\ UNCHANGED outsideOrchestrator

\* Lines 192-195: cleanup closes the shared client if there is one; the slot
\* keeps the closed client.
cleanup ==
    /\ http_client # None
    /\ http_client' = "closed"
    /\ UNCHANGED <<agent_arns, cognito_config, agent_cards, headers, net,
                   calls, req>>
    /\ UNCHANGED outsideOrchestrator

(* --------------------------------- time -------------------------------- *)
\* The timers of the program are whole multiples of TICK seconds, the
\* greatest common divisor of its timeouts: the clocks are read at these
\* instants, and what happens between two of them happens at the later one.
Timeouts == {CARD_TIMEOUT, AGENT_TIMEOUT, DEFAULT_TIMEOUT, OUTER_TIMEOUT}
DividesAll(d) == \A t \in Timeouts : t % d = 0
TICK == CHOOSE d \in 1..CARD_TIMEOUT :
            DividesAll(d) /\ \A e \in (d + 1)..CARD_TIMEOUT : ~DividesAll(e)

\* TICK seconds pass, unless a timer of the event loop is due.
Tick ==
    /\ req.pc = "streaming" \/ \E i \in Calls : InFlight(i)
    /\ req.pc = "streaming" => req.clk < OuterDeadline
    /\ \A i \in Calls :
         /\ calls[i].pc = "card" => calls[i].clk < CardDeadline
         /\ calls[i].pc = "send" => calls[i].clk < MessageDeadline
    /\ req' = [req EXCEPT !.clk = IF req.pc = "streaming" THEN @ + TICK ELSE @]
    /\ calls' = [i \in Calls |->
                   IF InFlight(i) THEN [calls[i] EXCEPT !.clk = @ + TICK]
                   ELSE calls[i]]
    /\ UNCHANGED <<agent_arns, cognito_config, agent_cards, http_client,
                   headers, net>>
    /\ UNCHANGED outsideOrchestrator

(* ---------------- settlement-agent.py: the settlement tools ------------- *)
\* A dict is a function from its keys; d.get(key) is None for a missing key.
EmptyDict == [k \in {} |-> None]
Get(d, key, default) == IF key \in DOMAIN d THEN d[key] ELSE default

\* Lines 74-82: the policy database holds one policy, which is active
KNOWN_CLAIM == "CL-2023-1156789"
ClaimNumbers == {KNOWN_CLAIM, "CL-0000"}
policy_database ==
    [c \in {KNOWN_CLAIM} |->
        [collision_coverage |-> COLLISION_COVERAGE, deductible |-> DEDUCTIBLE,
         policy_status |-> "ACTIVE"]]

Max(a, b) == IF a >= b THEN a ELSE b
Min(a, b) == IF a <= b THEN a ELSE b

\* amounts of money: small ones, and those next to the deductible, the
\* approval threshold and the coverage limit
Amounts ==
    (0..MaxAmount)
        \cup {DEDUCTIBLE + d : d \in {-1, 0, 1}}
        \cup {AUTO_APPROVAL_THRESHOLD + d : d \in {-1, 0, 1}}
        \cup {COLLISION_COVERAGE + d : d \in {0, 1}}

\* Lines 88-131
verify_coverage_limits(claim_number, estimated_cost) ==
    IF claim_number \notin DOMAIN policy_database
    THEN [status |-> "ERROR", coverage_applicable |-> FALSE]
    ELSE LET policy == policy_database[claim_number]
         IN  IF policy.policy_status # "ACTIVE"
             THEN [status |-> "DENIED", coverage_applicable |-> FALSE]
             ELSE [status |-> "VERIFIED",
                   coverage_applicable |->
                       (estimated_cost <= policy.collision_coverage),
                   coverage_limit |-> policy.collision_coverage,
                   estimated_cost |-> estimated_cost,
                   deductible |-> policy.deductible,
                   excess_amount |->
                       Max(0, estimated_cost - policy.collision_coverage)]

\* as if the payout were the plain difference
apply_deductible_adjustments_NoFloor(estimated_cost, deductible) ==
    [original_estimate |-> estimated_cost,
     deductible_amount |-> deductible,
     adjusted_payout |-> estimated_cost - deductible,
     policyholder_responsibility |-> Min(estimated_cost, deductible)]

\* Lines 134-157
apply_deductible_adjustments(estimated_cost, deductible) ==
    [original_estimate |-> estimated_cost,
     deductible_amount |-> deductible,
     adjusted_payout |-> Max(0, estimated_cost - deductible),
     policyholder_responsibility |-> Min(estimated_cost, deductible)]

\* A damage description is a sequence of words; lower() maps each word to
\* its lower case, and a text occurs in a description when its words occur
\* in it one after the other, the last one possibly inside a longer word.
Words == {"Frame", "damage", "STRUCTURAL", "non-structural", "dent"}
Lower(w) == CASE w = "Frame" -> "frame"
              [] w = "STRUCTURAL" -> "structural"
              [] OTHER -> w
WordsWith(part) ==
    IF part = "structural" THEN {"structural", "non-structural"} ELSE {part}
Descriptions == UNION {[1..n -> Words] : n \in 1..2}
ComponentLists == UNION {[1..n -> Descriptions] : n \in 0..MaxComponents}

\* Lines 184-185: "frame damage" in damage_desc or "structural" in damage_desc
IsHighRisk(description) ==
    LET desc == [k \in DOMAIN description |-> Lower(description[k])]
    IN  \/ \E k \in 1..(Len(desc) - 1) :
              desc[k] = "frame" /\ desc[k + 1] \in WordsWith("damage")
        \/ \E k \in 1..Len(desc) : desc[k] \in WordsWith("structural")

\* Lines 160-236.  The result is the decision, or the exception the call
\* ends with: formatting a missing (None) amount with ":,.2f" raises
\* TypeError.
evaluate_claim_decision(damaged_components, coverage_info, adjusted_amount) ==
    LET investigation_triggers ==
            {k \in DOMAIN damaged_components :
                 IsHighRisk(damaged_components[k])}
              \cup (IF adjusted_amount > AUTO_APPROVAL_THRESHOLD
                    THEN {0} ELSE {})
    IN  IF ~Get(coverage_info, "coverage_applicable", FALSE)
        THEN IF \E key \in {"coverage_limit", "estimated_cost", "excess_amount"} :
                    key \notin DOMAIN coverage_info
             THEN [raised |-> "TypeError"]
             ELSE [outcome |-> "DENY"]
        ELSE IF investigation_triggers # {}
        THEN [outcome |-> "INVESTIGATE"]
        ELSE [outcome |-> "APPROVE", approved_amount |-> adjusted_amount]

\* the agent object after __init__ (lines 72-83) and the last tool call
NoSettlement == [coverage_info |-> EmptyDict, tool |-> None,
                 args |-> EmptyDict, result |-> EmptyDict, made |-> 0]

\* The reasoning layer calls the tools with the arguments it chooses; the
\* coverage dict it passes on is the one verify_coverage_limits returned.
verify_coverage_limits_call ==
    /\ settlement.made < MaxToolCalls
    /\ \E claim_number \in ClaimNumbers, estimated_cost \in Amounts :
         LET r == verify_coverage_limits(claim_number, estimated_cost)
         IN  settlement' =
                 [coverage_info |-> r, tool |-> "verify_coverage_limits",
                  args |-> [claim_number |-> claim_number,
                            estimated_cost |-> estimated_cost],
                  result |-> r, made |-> settlement.made + 1]
    /\ UNCHANGED <<orchestratorVars, diag, mcp_client, getters>>

apply_deductible_adjustments_call ==
    /\ settlement.made < MaxToolCalls
    /\ \E estimated_cost \in Amounts, deductible \in Amounts :
         settlement' =
             [settlement EXCEPT
                 !.made = @ + 1,
                 !.tool = "apply_deductible_adjustments",
                 !.args = [estimated_cost |-> estimated_cost,
                           deductible |-> deductible],
                 !.result = apply_deductible_adjustments(estimated_cost,
                                                         deductible)]
    /\ UNCHANGED <<orchestratorVars, diag, mcp_client, getters>>

evaluate_claim_decision_call ==
    /\ settlement.made < MaxToolCalls
    /\ settlement.coverage_info # EmptyDict
    /\ \E damaged_components \in ComponentLists, adjusted_amount \in Amounts :
         settlement' =
             [settlement EXCEPT
                 !.made = @ + 1,
                 !.tool = "evaluate_claim_decision",
                 !.args = [damaged_components |-> damaged_components,
                           adjusted_amount |-> adjusted_amount],
                 !.result = evaluate_claim_decision(damaged_components,
                                settlement.coverage_info, adjusted_amount)]
    /\ UNCHANGED <<orchestratorVars, diag, mcp_client, getters>>

(* ---------------- strands_aws_docs.py: the lazy MCP client --------------- *)
\* The coroutines that call get_mcp_client, by name.  A getter that finds
\* the slot empty creates a client, which is named after the getter.
Getters == {ToString(k) : k \in 1..MaxGetters}

\* A getter: its position in get_mcp_client, the outcome of the start() it
\* awaits, the value it returned, and whether the start() of the client it
\* returned had completed at the return.
NoGetters ==
    [g \in Getters |->
        [pc |-> "idle", start |-> None, got |-> None, ready |-> FALSE]]

\* start() of client c has completed
Started(c) == getters[c].start = "started"

\* Lines 24-35 and 43.  An empty slot is filled with a new client before
\* start() is awaited; a filled slot is returned as it is.
get_mcp_client_begin(g) ==
    /\ getters[g].pc = "idle"
    /\ IF mcp_client = None
       THEN /\ mcp_client' = g
            /\ getters' = [getters EXCEPT ![g].pc = "start",
                                          ![g].start = "pending"]
       ELSE /\ getters' = [getters EXCEPT ![g].pc = "done",
                                          ![g].got = mcp_client,
                                          ![g].ready = Started(mcp_client)]
            /\ UNCHANGED mcp_client
    /\ UNCHANGED <<orchestratorVars, diag, settlement>>

\* Lines 35-36 and 43: start() completes within the timeout
get_mcp_client_started(g) ==
    /\ getters[g].pc = "start"
    /\ getters' = [getters EXCEPT ![g].pc = "done",
                                  ![g].start = "started",
                                  ![g].got = mcp_client,
                                  ![g].ready = TRUE]
    /\ UNCHANGED mcp_client
    /\ UNCHANGED <<orchestratorVars, diag, settlement>>

\* Lines 37-39 and 43: wait_for gives up after 10 seconds
get_mcp_client_timeout(g) ==
    /\ getters[g].pc = "start"
    /\ mcp_client' = None
    /\ getters' = [getters EXCEPT ![g].pc = "done",
                                  ![g].start = "timeout",
                                  ![g].got = None]
    /\ UNCHANGED <<orchestratorVars, diag, settlement>>

\* Lines 40-43: start() raises
get_mcp_client_failed(g) ==
    /\ getters[g].pc = "start"
    /\ mcp_client' = None
    /\ getters' = [getters EXCEPT ![g].pc = "done",
                                  ![g].start = "failed",
                                  ![g].got = None]
    /\ UNCHANGED <<orchestratorVars, diag, settlement>>

(* ------------------- the texts of the catch-all clauses ----------------- *)
\* A text is the sequence of its characters.  The message of an exception
\* is any text; its k-th character is written k, so that two messages of
\* different lengths agree on their common prefix and differ after it.
Messages == {[k \in 1..n |-> k] : n \in 0..MaxMessageLen}

\* as if the message were inserted whole
Truncated_Whole(e) == e

\* str(e)[:100]
Truncated(e) ==
    SubSeq(e, 1, IF Len(e) < DIAGNOSTIC_LIMIT THEN Len(e) ELSE DIAGNOSTIC_LIMIT)

\* "Error: " and "Processing failed: "
ERROR_PREFIX == <<"E", "r", "r", "o", "r", ":", " ">>
PROCESSING_FAILED_PREFIX ==
    <<"P", "r", "o", "c", "e", "s", "s", "i", "n", "g", " ",
      "f", "a", "i", "l", "e", "d", ":", " ">>

\* Line 130: f"Error: {str(e)[:100]}"
ErrorText(e) == ERROR_PREFIX \o Truncated(e)
\* Line 190: f"Processing failed: {str(e)[:100]}"
ProcessingFailedText(e) == PROCESSING_FAILED_PREFIX \o Truncated(e)

NoDiag == [e |-> <<>>, at |-> None, text |-> <<>>]

\* Lines 128-130: "except Exception as e" of send_agent_message
send_agent_message_except ==
    /\ diag.at = None
    /\ diag' = [diag EXCEPT !.at = "send_agent_message", !.text = ErrorText(diag.e)]
    /\ UNCHANGED <<orchestratorVars, settlement, mcp_client, getters>>

\* Lines 188-190: "except Exception as e" of invoke_agent; the text is the
\* value of the key "error" of the event
invoke_agent_except ==
    /\ diag.at = None
    /\ diag' = [diag EXCEPT !.at = "invoke_agent",
                            !.text = ProcessingFailedText(diag.e)]
    /\ UNCHANGED <<orchestratorVars, settlement, mcp_client, getters>>

(* ----------------------------- specification --------------------------- *)
\* the module has been imported: every cache slot is empty
OrchestratorInit ==
    /\ agent_arns = <<>>
    /\ cognito_config = {}
    /\ agent_cards = <<>>
    /\ http_client = None
    /\ headers = NoHeaders
    /\ net = NoNet
    /\ calls = [i \in Calls |-> IdleCall]
    /\ req = IdleRequest

Init ==
    /\ OrchestratorInit
    /\ diag = NoDiag
    /\ settlement = NoSettlement
    /\ mcp_client = None
    /\ getters = NoGetters

Next ==
    \/ invoke_agent_begin
    \/ agent_event
    \/ agent_final
    \/ agent_raises
    \/ outer_deadline
    \/ cleanup
    \/ Tick
    \/ \E i \in Calls : send_agent_message_begin(i)
    \/ \E i \in Calls : card_response(i)
    \/ \E i \in Calls : card_failure(i)
    \/ \E i \in Calls : card_timeout(i)
    \/ \E i \in Calls : message_event(i)
    \/ \E i \in Calls : message_stream_end(i)
    \/ \E i \in Calls : message_failure(i)
    \/ \E i \in Calls : message_timeout(i)

Spec == Init /\ [][Next]_vars

\* An exception with any message reaches one of the two catch-all clauses.
InitDiagnostics ==
    /\ OrchestratorInit
    /\ diag \in {[NoDiag EXCEPT !.e = m] : m \in Messages}
    /\ settlement = NoSettlement
    /\ mcp_client = None
    /\ getters = NoGetters

NextDiagnostics == send_agent_message_except \/ invoke_agent_except

SpecDiagnostics == InitDiagnostics /\ [][NextDiagnostics]_vars

\* The settlement agent: the tools are called in any order, any number of
\* times.
NextSettlement ==
    \/ verify_coverage_limits_call
    \/ apply_deductible_adjustments_call
    \/ evaluate_claim_decision_call

SpecSettlement == Init /\ [][NextSettlement]_vars

\* The documentation agent: the getters run get_mcp_client concurrently.
NextMcp ==
    \/ \E g \in Getters : get_mcp_client_begin(g)
    \/ \E g \in Getters : get_mcp_client_started(g)
    \/ \E g \in Getters : get_mcp_client_timeout(g)
    \/ \E g \in Getters : get_mcp_client_failed(g)

SpecMcp == Init /\ [][NextMcp]_vars

(* ------------------------------- claims -------------------------------- *)
\* the values a call hands back, as the kinds of InvocationResult
ResultTags == {"Text", "NoResponse", "NoResponseReceived", "AgentTimedOut", "Error"}
Ended(i) == calls[i].how # None
AgentTimedOut(a) == [tag |-> "AgentTimedOut", arg |-> a]
OwnHeaders(i) == [auth |-> i, session |-> i]

\* C1: whatever the parameter store, the secret store, the identity
\* provider, the card fetch and the message exchange do, a call that ends on
\* it ends by returning a classified value (a text, the timeout text or an
\* Error text); the only exception that leaves send_agent_message is the
\* cancellation of the request, which is no failure of a collaborator.
C1_FailuresAreReturned ==
    \A i \in Calls :
        /\ (Ended(i) /\ calls[i].how # "cancelled") =>
               calls[i].pc = "returned" /\ calls[i].ret.tag \in ResultTags
        /\ calls[i].pc = "raised" =>
               calls[i].how = "cancelled" /\ req.expired

\* C1 witness: one call ended on a failing store, another on a failing card
\* fetch, and both returned an Error value.
C1_Witness ==
    \E i, j \in Calls :
        /\ calls[i].how = "config" /\ calls[i].ret.tag = "Error"
        /\ calls[j].how = "card_failure" /\ calls[j].ret.tag = "Error"

\* C2 (as claimed): counted from the start of the card fetch, a call is over
\* within the one per-agent deadline of 10 seconds.
C2_OneDeadlineCoversCardAndMessage ==
    \A i \in Calls : InFlight(i) => calls[i].cardTime + calls[i].clk <= 10

\* C3 (as claimed): while the card of an endpoint is not cached, at most one
\* fetch of it is under way, and at most one was issued when the slot is
\* first written.
C3_NoStampede ==
    \A i, j \in Calls :
        (i # j /\ calls[i].pc = "card" /\ calls[j].pc = "card")
            => calls[i].agent # calls[j].agent

\* C4 (as claimed): every request a call has under way carries the token and
\* the session identifier that call made.
C4_RequestsCarryOwnHeaders ==
    \A i \in Calls :
        /\ calls[i].cardHdr # NoHeaders => calls[i].cardHdr = OwnHeaders(i)
        /\ calls[i].msgHdr # NoHeaders => calls[i].msgHdr = OwnHeaders(i)

\* C5: a call never waits for the response of the remote agent for more than
\* 10 seconds, and a call whose exchange is ended by the deadline returns
\* the timeout text naming its agent: no success text, no exception.
C5_MessageDeadline ==
    \A i \in Calls :
        /\ calls[i].pc = "send" => calls[i].clk <= 10
        /\ calls[i].how = "message_timeout" =>
               /\ calls[i].pc = "returned"
               /\ calls[i].ret = AgentTimedOut(calls[i].agent)

\* C5 witness: the remote agent was silent for the whole deadline and the
\* call returned the timeout text.
C5_Witness ==
    \E i \in Calls :
        /\ calls[i].how = "message_timeout"
        /\ calls[i].ret = AgentTimedOut(calls[i].agent)

\* C6: the deadline of one call ends that call alone, with the timeout text
\* naming its own agent, and leaves every other call as it is; a call that
\* receives a text returns that text under its own agent name and leaves
\* every other call as it is.
C6_SiblingIsolation ==
    [][\A b \in Calls :
         /\ (InFlight(b) /\ calls'[b].how \in {"message_timeout", "card_timeout"}) =>
               /\ calls'[b].ret = AgentTimedOut(calls[b].agent)
               /\ \A d \in Calls \ {b} : calls'[d] = calls[d]
         /\ (calls[b].pc = "send" /\ calls'[b].how = "message_event"
                /\ calls'[b].reply # None) =>
               /\ calls'[b].ret = [tag |-> "Text", arg |-> calls'[b].reply]
               /\ calls'[b].agent = calls[b].agent
               /\ \A d \in Calls \ {b} : calls'[d] = calls[d]
      ]_vars

\* C6 witness: "docs" and "blogs" were in flight together, "blogs" never
\* answered and returned the timeout text, "docs" returned its text "A".
C6_Witness ==
    \E d, b \in Calls :
        /\ calls[d].agent = "docs" /\ calls[b].agent = "blogs"
        /\ b \in calls[d].peers \/ d \in calls[b].peers
        /\ calls[d].ret = [tag |-> "Text", arg |-> "A"]
        /\ calls[b].how = "message_timeout"
        /\ calls[b].ret = AgentTimedOut("blogs")

\* the events of a stream that is over: streamed events, then one last
\* event of the given kinds
EndsWith(kinds) ==
    /\ Len(req.events) >= 1
    /\ req.events[Len(req.events)].kind \in kinds
    /\ \A k \in 1..(Len(req.events) - 1) : req.events[k].kind = "event"

EmptyPrompt == req.payload \in {"missing", "empty"}
BadRequest == [type |-> "HTTPException", status |-> 400]

\* C8: once the outer deadline has expired the generator is over, its last
\* event is the one error event "Request timed out after 25 seconds", and
\* the events before it are the events streamed before the deadline; since
\* this holds in every later state, nothing is emitted after it.
C8_OneTimeoutEvent ==
    req.expired =>
        /\ req.pc = "done"
        /\ EndsWith({"error"})
        /\ req.events[Len(req.events)].text = "Request timed out after 25 seconds"

\* C8 witness: the deadline expired after an event had been streamed.
C8_Witness ==
    /\ req.expired
    /\ Len(req.events) = 2
    /\ req.events[1].kind = "event"
    /\ req.events[2].kind = "error"

NoNetworkCall ==
    /\ net = NoNet
    /\ agent_arns = <<>> /\ cognito_config = {} /\ agent_cards = <<>>
    /\ http_client = None
    /\ \A i \in Calls : calls[i] = IdleCall

FailureHows == {"config", "lookup", "token", "closed", "card_failure",
                "card_timeout", "message_stream_end", "message_failure",
                "message_timeout"}
FailureTags == {"AgentTimedOut", "Error", "NoResponseReceived"}

\* C11: the step in which a call ends on a failure or a timeout of its
\* agent ends it by returning the timeout or error text (the value the tool
\* send_mcp_message or send_blog_message returns unchanged to the reasoning
\* layer), and leaves the request as it was: still streaming if it was, no
\* event added, no exception for invoke_agent to turn into an error event.
C11_DownstreamFailureIsAResult ==
    [][\A i \in Calls :
          (calls[i].how = None /\ calls'[i].how \in FailureHows) =>
              /\ calls'[i].pc = "returned"
              /\ calls'[i].ret.tag \in FailureTags
              /\ req' = req]_vars

\* C11 witness: one call returned the timeout text, another an Error text,
\* and the request went on to its final event without any error event.
C11_Witness ==
    /\ \E i, j \in Calls :
           /\ calls[i].ret.tag = "AgentTimedOut"
           /\ calls[j].ret.tag = "Error"
    /\ req.pc = "done"
    /\ req.exc = NoException
    /\ \A k \in 1..Len(req.events) : req.events[k].kind # "error"

(* ------------------------------------------------------------------------ *)
\* the time a call has been waiting since its first await
Elapsed(i) == calls[i].cardTime + calls[i].clk
\* the longest a call can wait: the card fetch up to its timer, then the
\* exchange up to its own
LongestInvoke == CardDeadline + MessageDeadline

\* C12: the deadline of the request is strictly greater than the longest
\* time one call can take under its two timers, no call is ever in flight
\* for longer than that, and a call started when the handling of the request
\* started is never still in flight when the deadline of the request is due.
C12_OuterDeadlineOutlastsInvoke ==
    /\ LongestInvoke < OuterDeadline
    /\ \A i \in Calls :
           /\ InFlight(i) => Elapsed(i) <= LongestInvoke
           /\ (InFlight(i) /\ req.pc = "streaming" /\ req.clk = Elapsed(i)) =>
                  req.clk < OuterDeadline

\* C12 witness: a call started with the request has used up both of its
\* timers, and the request is still streaming.
C12_Witness ==
    \E i \in Calls :
        /\ calls[i].pc = "send"
        /\ calls[i].cardTime = CardDeadline
        /\ calls[i].clk = MessageDeadline
        /\ req.pc = "streaming"
        /\ req.clk = LongestInvoke

(* ------------------------------------------------------------------------ *)
\* C13: a card that is in agent_cards stays there and is never replaced; a
\* call that starts when the card of its agent is cached issues no card
\* fetch; a card fetch that fails or times out writes nothing to agent_cards.
C13_CardMemoized ==
    [][/\ \A arn \in DOMAIN agent_cards :
              arn \in DOMAIN agent_cards' /\ agent_cards'[arn] = agent_cards[arn]
       /\ \A i \in Calls :
              /\ (calls[i].pc = "idle" /\ calls'[i].pc = "card") =>
                     agent_arns'[calls'[i].agent] \notin DOMAIN agent_cards
              /\ (calls[i].pc = "card"
                      /\ calls'[i].how \in {"card_failure", "card_timeout"}) =>
                     agent_cards' = agent_cards]_vars

(* ------------------------------------------------------------------------ *)
\* C14: the caches are filled in the order credential, endpoints, card: the
\* endpoints are never cached while the credential is not, and no card is
\* cached while the endpoints are not.
C14_CredentialThenEndpoint ==
    /\ agent_arns # <<>> => cognito_config # {}
    /\ agent_cards # <<>> => agent_arns # <<>>

\* C14 as the code has it: the order is endpoints, credential, card.  The
\* credential is never cached while the endpoints are not, and no card is
\* cached while the credential or the endpoints are not.
C14_Amended ==
    /\ cognito_config # {} => agent_arns # <<>>
    /\ agent_cards # <<>> => (cognito_config # {} /\ agent_arns # <<>>)

\* C14 witness: a call ended on the secret store after get_cached_config had
\* stored the endpoints; the credential cache is still empty.
C14_Witness ==
    /\ agent_arns # <<>>
    /\ cognito_config = {}
    /\ agent_cards = <<>>
    /\ \E i \in Calls : calls[i].how = "config"

(* ------------------------------------------------------------------------ *)
\* C15: a secret store that is unreachable or answers with a malformed
\* secret leaves the credential cache empty: the cache holds nothing, or the
\* credential of a well-formed secret, so that the next call fetches again.
C15_FailuresDoNotPoison ==
    cognito_config \in {{}, {GoodCredential}}

(* ------------------------------------------------------------------------ *)
\* C16: once the credential cache is filled, no step changes or empties it
\* and no step calls the secret store.
C16_CredentialFetchedOnce ==
    [][cognito_config # {} =>
          (cognito_config' = cognito_config /\ net'.secret = net.secret)]_vars

\* C16 witness: every call of the request went through get_cached_config
\* and on to the token step, and the secret store was called once.
C16_Witness ==
    /\ cognito_config # {}
    /\ net.secret = 1
    /\ net.idp = MaxCalls
    /\ \A i \in Calls : calls[i].pc # "idle" /\ calls[i].how # "config"

(* ------------------------------------------------------------------------ *)
\* the call i starts in this step
Starts(i) == calls[i].pc = "idle" /\ calls'[i].pc # "idle"
\* the call i starts and ends in this step on the parameter store: it ends
\* in get_cached_config and the secret store was not reached
EndsOnParameterStore(i) ==
    /\ Starts(i)
    /\ calls'[i].how = "config"
    /\ net'.ssm > net.ssm
    /\ net'.secret = net.secret

\* C17: a call that ends on a failing parameter store stores no endpoint,
\* and a call that starts while no endpoint is stored queries the parameter
\* store (again); once the endpoints are stored they are never changed and
\* the parameter store is never queried again.
C17_EndpointFailuresNotCached ==
    [][/\ \A i \in Calls :
              /\ EndsOnParameterStore(i) => agent_arns' = <<>>
              /\ (Starts(i) /\ agent_arns = <<>>) => net'.ssm > net.ssm
       /\ agent_arns # <<>> =>
              (agent_arns' = agent_arns /\ net'.ssm = net.ssm)]_vars

\* C17 witness: one call ended on the parameter store with nothing stored,
\* the next call queried it again and stored the endpoints.
C17_Witness ==
    /\ \E i \in Calls :
           /\ calls[i].how = "config"
           /\ \E j \in Calls : j > i /\ calls[j].how # "config"
                                 /\ calls[j].pc # "idle"
    /\ agent_arns # <<>>
    /\ net.secret = 1
    /\ net.ssm > Cardinality(AgentTypes)

(* ------------------------------------------------------------------------ *)
\* C18: a call for a name get_cached_config has no entry for ends in the
\* step it starts in, before its first await, by returning an Error text
\* from the resolution of its ARN; that step mints no token, leaves the
\* shared client and its headers alone, fetches no card and sends no message.
C18_UnknownAgentFailsAtResolution ==
    [][\A i \in Calls :
          (Starts(i) /\ calls'[i].agent \notin AgentTypes) =>
              /\ calls'[i].pc = "returned"
              /\ calls'[i].ret.tag = "Error"
              /\ calls'[i].how \in {"config", "lookup"}
              /\ net'.idp = net.idp
              /\ headers' = headers
              /\ http_client' = http_client
              /\ agent_cards' = agent_cards
              /\ net'.card = net.card
              /\ net'.msg = net.msg]_vars

\* C18 witness: the stores answered, the name was not among the endpoints,
\* and the call returned its Error text with the shared client untouched.
C18_Witness ==
    \E i \in Calls :
        /\ calls[i].agent \in AgentNames \ AgentTypes
        /\ calls[i].how = "lookup"
        /\ calls[i].ret.tag = "Error"
        /\ agent_arns # <<>>
        /\ net.idp = 0
        /\ headers = NoHeaders
        /\ http_client = None

(* ------------------------------------------------------------------------ *)
\* C19: a call that ends on the identity provider ends in the step it
\* starts in by returning an Error text, and that step leaves the shared
\* client and its headers alone, fetches no card and sends no message; a
\* call that goes on to its card fetch or its exchange has set a minted
\* token on the shared client.
C19_NoTokenNoRequest ==
    [][\A i \in Calls :
          /\ (Starts(i) /\ calls'[i].how = "token") =>
                 /\ calls'[i].pc = "returned"
                 /\ calls'[i].ret.tag = "Error"
                 /\ net'.idp = net.idp + 1
                 /\ headers' = headers
                 /\ http_client' = http_client
                 /\ agent_cards' = agent_cards
                 /\ net'.card = net.card
                 /\ net'.msg = net.msg
          /\ (Starts(i) /\ calls'[i].pc \in {"card", "send"}) =>
                 headers'.auth # NoHeaders.auth]_vars

\* C19 witness: the identity provider was called and failed; the call
\* returned an Error text, no client was created, no header set, no card
\* fetched and no message sent.
C19_Witness ==
    \E i \in Calls :
        /\ calls[i].how = "token"
        /\ calls[i].ret.tag = "Error"
        /\ net.idp = 1
        /\ headers = NoHeaders
        /\ http_client = None
        /\ net.card = NoNet.card
        /\ net.msg = 0

(* ------------------------------------------------------------------------ *)
\* C20: the token on every request a call has under way, its card fetch and
\* its message, is the token the identity provider minted in that call.
C20_TokenMintedByTheCall ==
    \A i \in Calls :
        /\ calls[i].pc = "card" => calls[i].cardHdr.auth = i
        /\ calls[i].pc = "send" => calls[i].msgHdr.auth = i

(* ------------------------------------------------------------------------ *)
\* C21: for a Message and for a 2-tuple alike, an event with no parts gives
\* the text "No response" and an event with parts gives the text of the
\* first one; a call that ended on such an event returned exactly that, as a
\* value, not as an Error and not by raising.
C21_FirstPartOrNoResponse ==
    /\ \A shape \in {"Message", "Tuple2"}, parts \in PartLists :
           OnEvent(shape, parts) =
               IF Len(parts) = 0 THEN [tag |-> "NoResponse", arg |-> None]
               ELSE [tag |-> "Text", arg |-> Head(parts)]
    /\ \A i \in Calls :
           calls[i].how = "message_event" =>
               /\ calls[i].pc = "returned"
               /\ calls[i].ret =
                      IF calls[i].reply = None
                      THEN [tag |-> "NoResponse", arg |-> None]
                      ELSE [tag |-> "Text", arg |-> calls[i].reply]

\* C21 witness: one call ended on an event without parts and returned
\* "No response", another ended on an event with parts and returned a text.
C21_Witness ==
    \E i, j \in Calls :
        /\ calls[i].how = "message_event"
        /\ calls[i].ret.tag = "NoResponse"
        /\ calls[j].how = "message_event"
        /\ calls[j].ret.tag = "Text"

(* ------------------------------------------------------------------------ *)
\* C22: whatever the length of the message of the exception, the text of
\* the Error outcome and the text of the error event are the fixed prefix
\* followed by the first 100 characters of the message (all of it when it is
\* shorter), so the text is never longer than the prefix plus 100.
C22_DiagnosticsBounded ==
    LET prefix == IF diag.at = "send_agent_message" THEN ERROR_PREFIX
                  ELSE PROCESSING_FAILED_PREFIX
        kept   == IF Len(diag.e) < DIAGNOSTIC_LIMIT THEN Len(diag.e)
                  ELSE DIAGNOSTIC_LIMIT
    IN  diag.at # None =>
            /\ Len(diag.text) <= Len(prefix) + DIAGNOSTIC_LIMIT
            /\ Len(diag.text) = Len(prefix) + kept
            /\ \A k \in 1..Len(prefix) : diag.text[k] = prefix[k]
            /\ \A k \in 1..kept : diag.text[Len(prefix) + k] = diag.e[k]

\* C22 witness: a message longer than 100 characters was cut to 100.
C22_Witness ==
    /\ diag.at = "invoke_agent"
    /\ Len(diag.e) > DIAGNOSTIC_LIMIT
    /\ Len(diag.text) = Len(PROCESSING_FAILED_PREFIX) + DIAGNOSTIC_LIMIT

(* ------------------------------------------------------------------------ *)
\* the call i starts in this step and gets as far as get_http_client
AcquiresClient(i) ==
    Starts(i) /\ calls'[i].how \notin {"config", "lookup", "token"}

\* C23: once cleanup has closed the shared client, a call that gets as far
\* as get_http_client is refused there: it is not handed the closed client
\* (it sets no headers on it) and no new client is put in the slot.
C23_ClosedPoolIsRefused ==
    [][\A i \in Calls :
          (AcquiresClient(i) /\ http_client = "closed") =>
              /\ headers' = headers
              /\ http_client' = "closed"]_vars

\* C24: cleanup closes the client only when no call is in flight, and a
\* client that was closed is never open again.
C24_ShutdownDrains ==
    [][/\ (http_client = "open" /\ http_client' = "closed") =>
              \A i \in Calls : ~InFlight(i)
       /\ http_client = "closed" => http_client' = "closed"]_vars

(* ------------------------------------------------------------------------ *)
\* C25: a call that ended on the timer of its card fetch and a call that
\* ended on the timer of its exchange never returned the same value, and
\* neither did a call that ended on a failing card fetch.
C25_CardTimeoutIsDistinct ==
    \A i, j \in Calls :
        calls[i].how = "card_timeout" =>
            /\ calls[j].how = "message_timeout" => calls[i].ret # calls[j].ret
            /\ calls[j].how = "card_failure" => calls[i].ret # calls[j].ret

\* C25 as the code has it: a card fetch never waits for more than 5
\* seconds; the step that ends it on its timer returns the timeout text
\* naming the agent, the one a timer of the exchange gives as well, stores
\* no card and sends no message; a card fetch that fails returns an Error
\* text instead.
C25_Amended ==
    [][\A i \in Calls :
          /\ calls'[i].pc = "card" => calls'[i].clk <= CARD_TIMEOUT
          /\ (calls[i].pc = "card" /\ calls'[i].how = "card_timeout") =>
                 /\ calls[i].clk = CARD_TIMEOUT
                 /\ calls'[i].pc = "returned"
                 /\ calls'[i].ret = AgentTimedOut(calls[i].agent)
                 /\ agent_cards' = agent_cards
                 /\ net'.msg = net.msg
          /\ calls'[i].how = "message_timeout" =>
                 calls'[i].ret = AgentTimedOut(calls'[i].agent)
          /\ calls'[i].how = "card_failure" => calls'[i].ret.tag = "Error"]_vars

\* C25 witness: one call ended on the timer of its card fetch, another on
\* the timer of its exchange, and both returned the same text.
C25_Witness ==
    \E i, j \in Calls :
        /\ calls[i].how = "card_timeout"
        /\ calls[j].how = "message_timeout"
        /\ calls[i].ret = calls[j].ret
        /\ net.msg = 1

(* ------------------------------------------------------------------------ *)
\* C26: a call for "docs" that starts while no endpoint is stored queries
\* the parameter store for one parameter only, its own, and ends on the
\* parameter store only when that one query failed: a failure of the "blogs"
\* parameter does not end it.
C26_ResolutionPerName ==
    [][\A i \in Calls :
          (Starts(i) /\ calls'[i].agent = "docs") =>
              /\ net'.ssm <= net.ssm + 1
              /\ EndsOnParameterStore(i) => net'.ssm = net.ssm + 1]_vars

(* ------------------------------------------------------------------------ *)
\* the text "Timeout: No response received"
NoResponseReceived == [tag |-> "NoResponseReceived", arg |-> None]

\* C27: an event that is neither a Message nor a 2-tuple decides nothing:
\* the call goes on waiting; the first Message or 2-tuple ends the call with
\* its text or "No response"; the end of the stream ends it with the text
\* "Timeout: No response received", whatever its clock shows, never with
\* the text of an expired timer and never with an Error text; and what a
\* call has returned is never changed by a later event.
C27_FirstMessageDecides ==
    [][/\ \A parts \in PartLists : OnEvent("Other", parts).tag = "Continue"
       /\ \A i \in Calls :
              /\ (calls[i].pc = "send" /\ calls'[i].skipped > calls[i].skipped) =>
                     calls'[i].pc = "send" /\ calls'[i].ret = calls[i].ret
              /\ (calls[i].pc = "send" /\ calls'[i].how = "message_event") =>
                     /\ calls'[i].pc = "returned"
                     /\ calls'[i].ret.tag \in {"Text", "NoResponse"}
              /\ (calls[i].pc = "send" /\ calls'[i].how = "message_stream_end") =>
                     /\ calls'[i].pc = "returned"
                     /\ calls'[i].ret = NoResponseReceived
              /\ calls[i].pc = "returned" => calls'[i] = calls[i]]_vars

\* C27 witness: the stream of a call ended before any time had passed, so
\* no timer had expired, and the call returned "Timeout: No response
\* received".
C27_Witness ==
    \E i \in Calls :
        /\ calls[i].how = "message_stream_end"
        /\ calls[i].ret = NoResponseReceived
        /\ req.pc = "streaming"
        /\ req.clk = 0

(* ------------------------------------------------------------------------ *)
\* the last tool call was evaluate_claim_decision
Decided == settlement.tool = "evaluate_claim_decision"
CoverageApplicable == Get(settlement.coverage_info, "coverage_applicable", FALSE)
HasTriggers ==
    \/ \E k \in DOMAIN settlement.args.damaged_components :
           IsHighRisk(settlement.args.damaged_components[k])
    \/ settlement.args.adjusted_amount > AUTO_APPROVAL_THRESHOLD

\* C28: every call of evaluate_claim_decision returns one of the three
\* outcomes: DENY exactly when the coverage is not applicable; otherwise
\* INVESTIGATE exactly when a damage description mentions frame or
\* structural damage or the adjusted amount is over 5,000; otherwise APPROVE
\* with the adjusted amount as the approved amount, and only for an amount
\* under 5,000.
C28_OneOutcomeByPrecedence ==
    Decided =>
        /\ "outcome" \in DOMAIN settlement.result
        /\ settlement.result.outcome \in {"DENY", "INVESTIGATE", "APPROVE"}
        /\ settlement.result.outcome = "DENY" <=> ~CoverageApplicable
        /\ settlement.result.outcome = "INVESTIGATE" <=>
               (CoverageApplicable /\ HasTriggers)
        /\ settlement.result.outcome = "APPROVE" =>
               /\ settlement.result.approved_amount =
                      settlement.args.adjusted_amount
               /\ settlement.args.adjusted_amount < AUTO_APPROVAL_THRESHOLD

\* C29: for every estimate and deductible the payout is not negative, the
\* share of the policyholder is not more than the deductible, and the two
\* add up to the estimate.
C29_DeductibleSplitsEstimate ==
    settlement.tool = "apply_deductible_adjustments" =>
        /\ settlement.result.adjusted_payout >= 0
        /\ settlement.result.policyholder_responsibility
               <= settlement.args.deductible
        /\ settlement.result.adjusted_payout
               + settlement.result.policyholder_responsibility
               = settlement.args.estimated_cost
        /\ settlement.result.original_estimate = settlement.args.estimated_cost

\* C29 witness: the deductible is larger than the estimate; the payout is
\* zero and the policyholder bears the whole estimate.
C29_Witness ==
    /\ settlement.tool = "apply_deductible_adjustments"
    /\ settlement.args.deductible > settlement.args.estimated_cost
    /\ settlement.args.estimated_cost > 0
    /\ settlement.result.adjusted_payout = 0
    /\ settlement.result.policyholder_responsibility
           = settlement.args.estimated_cost

(* ------------------------------------------------------------------------ *)
\* the getters that have returned
Returned == {g \in Getters : getters[g].pc = "done"}
\* the clients created so far
Created == {g \in Getters : getters[g].start # None}

\* C30 (first part): whatever the interleaving, a getter returns None or a
\* client whose start() had completed.
C30_ReturnsStartedClientOrNone ==
    \A g \in Returned : getters[g].got = None \/ getters[g].ready

\* C30 (second part): once the start() of a client has timed out or failed
\* the slot does not hold that client, so that a later call starts over.
C30_SlotResetAfterFailure ==
    \A c \in Created :
        getters[c].start \in {"timeout", "failed"} => mcp_client # c

\* C30 (third part): once a start() has succeeded no other start() is made:
\* that client stays in the slot and is the only client started or starting.
C30_NoStartAfterSuccess ==
    [][\A c \in Created :
          Started(c) =>
              /\ mcp_client' = c
              /\ \A g \in Getters :
                     getters'[g].start = "pending" => getters[g].start = "pending"
      ]_vars

\* a later call does start over after a failure
C30_RetryWitness ==
    \E c, d \in Created :
        /\ getters[c].start \in {"timeout", "failed"}
        /\ Started(d)
        /\ mcp_client = d

=============================================================================
